---- MODULE Spec2Model ----
(***************************************************************************)
(* Order-taking backend (src/app.py): the Contact/Order store, the handlers *)
(* place_order, clear_all_orders, get_all_orders and query_order_by_phone,  *)
(* run by request workers that share one SQLite database.                   *)
(*                                                                          *)
(* Python values are modelled as follows: a str is a sequence of one-letter *)
(* strings, None is a sentinel sequence, a dict is a function whose DOMAIN  *)
(* is its key set (so a missing key is really missing), a list is a         *)
(* sequence.  Rows of a table are records, a table is a set of rows.        *)
(* Left out of the rows and of the response bodies because nothing checked  *)
(* here reads them: Order.items_json and the "content" summary built from   *)
(* it, the customer name in listings, and the formatted timestamp strings.  *)
(***************************************************************************)
EXTENDS Integers, Sequences, FiniteSets, TLC

VARIABLES orders, contacts, writer, sess, pc, loc, resp, clock, history, race

vars == <<orders, contacts, writer, sess, pc, loc, resp, clock, history, race>>

\* Bound on the run: committed writes (orders placed plus clears) per behaviour.
MaxEvents == 4

FirstOrderId == 1001
DeliveryFeeAmount == 50
SuffixLen == 3

Procs == {"w1", "w2"}
SeqProcs == {"w1"}
NoWriter == "none"

(* ---------------------------- Python values ---------------------------- *)

None == <<"<None>">>

S_pickup == <<"p", "i", "c", "k", "u", "p">>
S_delivery == <<"d", "e", "l", "i", "v", "e", "r", "y">>
S_Delivery == <<"D", "e", "l", "i", "v", "e", "r", "y">>
S_pending == <<"p", "e", "n", "d", "i", "n", "g">>
S_NA == <<"N", "/", "A">>
S_Amy == <<"A", "m", "y">>
S_Bob == <<"B", "o", "b">>

Digits == {"0", "1", "2", "3", "4", "5", "6", "7", "8", "9"}
Whitespace == {" "}

\* dict.get(k, dflt)
Get(d, k, dflt) == IF k \in DOMAIN d THEN d[k] ELSE dflt

\* bool(s) of an optional str
Truthy(s) == s # None /\ s # <<>>

\* str.isdigit(): non-empty and every character a digit
IsDigit(s) == Len(s) > 0 /\ \A i \in 1..Len(s) : s[i] \in Digits

RECURSIVE LStrip(_)
LStrip(s) == IF s # <<>> /\ Head(s) \in Whitespace THEN LStrip(Tail(s)) ELSE s

RECURSIVE RStrip(_)
RStrip(s) ==
  IF s # <<>> /\ s[Len(s)] \in Whitespace THEN RStrip(SubSeq(s, 1, Len(s) - 1)) ELSE s

\* str.strip()
Strip(s) == RStrip(LStrip(s))

Max(S) == CHOOSE m \in S : \A x \in S : x <= m
Min(S) == CHOOSE m \in S : \A x \in S : m <= x

(* ------------------------------ the store ------------------------------ *)

\* INTEGER PRIMARY KEY of SQLite: one more than the largest rowid in the table.
NextRowId(rows) == IF rows = {} THEN 1 ELSE Max({r.id : r \in rows}) + 1

EmptySess == [active |-> FALSE, orders |-> {}, contacts |-> {}]

\* The tables as worker p's open transaction sees them.
View(p) ==
  IF sess[p].active THEN sess[p]
  ELSE [active |-> TRUE, orders |-> orders, contacts |-> contacts]

\* A failure path that forgets the rollback.
RollbackKeepsPending(s, w, p) == [sess |-> s, writer |-> w]

\* db.session.rollback(): the pending rows are dropped, the write lock released.
Rollback(s, w, p) == [sess |-> EmptySess, writer |-> IF w = p THEN NoWriter ELSE w]

\* The column without its unique constraint.
UniqueNotEnforced(os, n) == FALSE

\* unique=True on Order.order_id: the INSERT is rejected when the number exists.

HasDuplicate(os, n) == \E o \in os : o.order_id = n

(* ----------------------------- place_order ----------------------------- *)

ValidOrderRequest(r) ==
  /\ r.is_json
  /\ "cartItems" \in DOMAIN r.data
  /\ "contactInfo" \in DOMAIN r.data

RECURSIVE TotalAmount(_)
TotalAmount(items) ==
  IF items = <<>> THEN 0
  ELSE TotalAmount(SubSeq(items, 1, Len(items) - 1))
       + Get(items[Len(items)], "price", 0) * Get(items[Len(items)], "quantity", 0)

\* The fee charged for every pickupType other than "pickup".
DeliveryFeeUnlessPickup(data) ==
  IF Get(data, "pickupType", S_pickup) # S_pickup THEN DeliveryFeeAmount ELSE 0

DeliveryFee(data) ==
  IF Get(data, "pickupType", None) = S_delivery THEN DeliveryFeeAmount ELSE 0

FinalAmount(data) == TotalAmount(data["cartItems"]) + DeliveryFee(data)

\* A numbering that starts one too low.
NextOrderIdFromZero(os) ==
  IF os = {} THEN FirstOrderId - 1 ELSE Max({o.order_id : o \in os}) + 1

\* A numbering read from the smallest number and counted downwards.
NextOrderIdDescending(os) ==
  IF os = {} THEN FirstOrderId ELSE Min({o.order_id : o \in os}) - 1

NextOrderId(os) ==
  IF os = {} THEN FirstOrderId ELSE Max({o.order_id : o \in os}) + 1

NormalizeAddress(a) ==
  LET stripped == IF Truthy(a) THEN Strip(a) ELSE a
  IN IF stripped = <<>> THEN None ELSE stripped

NewContact(data, id) ==
  LET contact_info == Get(data, "contactInfo", <<>>)
  IN [id |-> id,
      contact_name |-> Get(contact_info, "name", S_NA),
      contact_phone |-> Get(contact_info, "phone", S_NA),
      delivery_address |-> NormalizeAddress(Get(contact_info, "address", None)),
      pickup_type |-> Get(data, "pickupType", S_pickup)]

\* nullable=False on contact_name, contact_phone and pickup_type
ContactNotNull(c) ==
  c.contact_name # None /\ c.contact_phone # None /\ c.pickup_type # None

NewOrder(id, order_id, final_amount, contact_id, now) ==
  [id |-> id, order_id |-> order_id, status |-> S_pending,
   final_amount |-> final_amount, created_at |-> now, contact_id |-> contact_id]

(* ------------------------------- queries ------------------------------- *)

\* order.contact: the Contact row the Order's foreign key names; it is None
\* when there is no such row.
HasContact(o, cs) == \E c \in cs : c.id = o.contact_id

ContactOf(o, cs) == CHOOSE c \in cs : c.id = o.contact_id

RECURSIVE OrderByIdDesc(_)
OrderByIdDesc(os) ==
  IF os = {} THEN <<>>
  ELSE LET first == CHOOSE o \in os : \A x \in os : x.id <= o.id
       IN <<first>> \o OrderByIdDesc(os \ {first})

RECURSIVE OrderByCreatedAtDesc(_)
OrderByCreatedAtDesc(os) ==
  IF os = {} THEN <<>>
  ELSE LET first == CHOOSE o \in os : \A x \in os : x.created_at <= o.created_at
       IN <<first>> \o OrderByCreatedAtDesc(os \ {first})

AllOrdersEntry(o, cs) ==
  LET contact == ContactOf(o, cs)
  IN [order_id |-> o.id,
      final_amount |-> o.final_amount,
      contact_phone_last_three |->
        IF Truthy(contact.contact_phone) THEN contact.contact_phone ELSE S_NA,
      status |-> o.status,
      pickup_type |-> contact.pickup_type,
      delivery_address |-> contact.delivery_address]

\* An attribute read on a missing contact raises, and nothing catches it.
get_all_orders(os, cs) ==
  LET sorted == OrderByIdDesc(os)
  IN IF \E o \in os : ~HasContact(o, cs)
     THEN [status |-> 500, error |-> "AttributeError", caught |-> FALSE]
     ELSE [status |-> 200,
           body |-> [i \in 1..Len(sorted) |-> AllOrdersEntry(sorted[i], cs)]]

ValidSuffix(s) == Truthy(s) /\ Len(s) = SuffixLen /\ IsDigit(s)

\* A suffix match in place of the equality.
PhoneEndsWith(phone, suffix) ==
  /\ Len(phone) >= Len(suffix)
  /\ SubSeq(phone, Len(phone) - Len(suffix) + 1, Len(phone)) = suffix

PhoneMatches(phone, suffix) == phone = suffix

QueryEntry(o, cs) ==
  LET contact == ContactOf(o, cs)
  IN [order_id |-> o.order_id,
      final_amount |-> o.final_amount,
      pickup_type |-> contact.pickup_type,
      address |-> contact.delivery_address]

\* ContactInfo.query.filter(ContactInfo.contact_phone == phone_suffix).all()
MatchedContacts(args, cs) ==
  {c \in cs : PhoneMatches(c.contact_phone, Get(args, "phone_suffix", None))}

SortMatched(os) == OrderByCreatedAtDesc(os)

\* The second read: the Orders of the matched contacts, newest first.  The
\* session still holds the Contact objects of the first read, and order.contact
\* resolves to them.
QueryResult(matched, os) ==
  LET contact_ids == {c.id : c \in matched}
      sorted == SortMatched({o \in os : o.contact_id \in contact_ids})
  IN [status |-> 200,
      body |-> [i \in 1..Len(sorted) |-> QueryEntry(sorted[i], matched)]]

(* --------------------------- clear_all_orders --------------------------- *)

\* A clear that forgets the DELETE on Order.
ClearOnlyContacts(v) == [active |-> TRUE, orders |-> v.orders, contacts |-> {}]

\* The two bulk DELETEs, inside the worker's transaction.
ClearedImage(v) == [active |-> TRUE, orders |-> {}, contacts |-> {}]

(* ------------------------------- requests ------------------------------- *)

P123 == <<"1", "2", "3">>
P456 == <<"4", "5", "6">>
P9123 == <<"0", "9", "1", "2", "3">>

ReqA ==
  [is_json |-> TRUE,
   data |-> [cartItems |-> <<[price |-> 60, quantity |-> 2]>>,
             contactInfo |-> [name |-> S_Amy, phone |-> P123, address |-> <<>>],
             pickupType |-> S_pickup]]

ReqB ==
  [is_json |-> TRUE,
   data |-> [cartItems |-> <<[price |-> 60, quantity |-> 2], [price |-> 40]>>,
             contactInfo |-> [name |-> S_Bob, phone |-> P9123,
                              address |-> <<" ", "x", " ">>],
             pickupType |-> S_delivery]]

ReqC ==
  [is_json |-> TRUE,
   data |-> [cartItems |-> <<[quantity |-> 3], [price |-> 40, quantity |-> 1]>>,
             contactInfo |-> [phone |-> P123, address |-> <<" ", " ">>]]]

ReqD ==
  [is_json |-> TRUE,
   data |-> [cartItems |-> <<>>,
             contactInfo |-> [name |-> S_Amy, phone |-> P456],
             pickupType |-> S_Delivery]]

ReqNoContact ==
  [is_json |-> TRUE,
   data |-> [cartItems |-> <<[price |-> 60, quantity |-> 2]>>, pickupType |-> S_pickup]]

ReqNotJson == [is_json |-> FALSE, data |-> <<>>]

ReqNullPickup ==
  [is_json |-> TRUE,
   data |-> [cartItems |-> <<[price |-> 60, quantity |-> 1]>>,
             contactInfo |-> [name |-> S_Amy, phone |-> P123],
             pickupType |-> None]]

\* Requests of the concurrent runs, and of the one-call-at-a-time runs.
Requests == {ReqA, ReqB, ReqNotJson}
SeqRequests == {ReqA, ReqB, ReqC, ReqD, ReqNoContact, ReqNotJson, ReqNullPickup}

QueryArgs ==
  {<<>>} \cup
  {[phone_suffix |-> s] :
     s \in {<<>>, <<"1", "2">>, <<"1", "2", "a">>, <<"1", "2", "3", "4">>, P123, P456}}

(* ------------------------------- workers ------------------------------- *)

NoLoc == [op |-> "none", data |-> <<>>, final_amount |-> 0, new_order_id |-> 0,
          contact_id |-> 0, order_pk |-> 0, matched |-> {}]
NoResp == [status |-> 0]

Init ==
  /\ orders = {}
  /\ contacts = {}
  /\ writer = NoWriter
  /\ sess = [p \in Procs |-> EmptySess]
  /\ pc = [p \in Procs |-> "idle"]
  /\ loc = [p \in Procs |-> NoLoc]
  /\ resp = [p \in Procs |-> NoResp]
  /\ clock = 0
  /\ history = <<>>
  /\ race = {}

\* Calls that may still commit a write count against the bound on the run.
Budget ==
  Len(history)
    + Cardinality({q \in Procs : pc[q] \in {"read", "flushed", "committed", "deleted"}})
    < MaxEvents

\* place_order, lines 80-86: the request is rejected before anything is read.
PlaceInvalid(p, r) ==
  /\ pc[p] = "idle"
  /\ ~ValidOrderRequest(r)
  /\ pc' = [pc EXCEPT ![p] = "done"]
  /\ loc' = [loc EXCEPT ![p] = [NoLoc EXCEPT !.op = "place", !.data = r.data]]
  /\ resp' = [resp EXCEPT ![p] = [status |-> 400]]
  /\ UNCHANGED <<orders, contacts, writer, sess, clock, history, race>>

\* place_order, lines 80-113: validation, the amounts, and the read of the
\* largest order number.
PlaceRead(p, r) ==
  /\ pc[p] = "idle"
  /\ ValidOrderRequest(r)
  /\ Budget
  /\ pc' = [pc EXCEPT ![p] = "read"]
  /\ loc' = [loc EXCEPT ![p] =
               [NoLoc EXCEPT !.op = "place", !.data = r.data,
                             !.final_amount = FinalAmount(r.data),
                             !.new_order_id = NextOrderId(View(p).orders)]]
  /\ UNCHANGED <<orders, contacts, writer, sess, resp, clock, history, race>>

\* place_order, lines 115-123: the Contact row is inserted in the worker's
\* transaction, which takes the database's write lock.
PlaceFlush(p) ==
  /\ pc[p] = "read"
  /\ writer \in {NoWriter, p}
  /\ LET v == View(p)
         c == NewContact(loc[p].data, NextRowId(v.contacts))
     IN /\ ContactNotNull(c)
        /\ sess' = [sess EXCEPT ![p] = [v EXCEPT !.contacts = @ \cup {c}]]
        /\ loc' = [loc EXCEPT ![p].contact_id = c.id]
  /\ writer' = p
  /\ pc' = [pc EXCEPT ![p] = "flushed"]
  /\ race' = IF \E q \in Procs \ {p} :
                  pc[q] = "read" /\ loc[q].new_order_id = loc[p].new_order_id
             THEN {p} \cup {q \in Procs \ {p} :
                      pc[q] = "read" /\ loc[q].new_order_id = loc[p].new_order_id}
             ELSE race
  /\ UNCHANGED <<orders, contacts, resp, clock, history>>

\* place_order, line 123 raising: the write lock is held by another worker
\* until the busy timeout, or a NOT NULL column is None.  Nothing catches it:
\* the request ends 500 and the session is removed with the request.
PlaceFlushFail(p) ==
  /\ pc[p] = "read"
  /\ LET c == NewContact(loc[p].data, NextRowId(View(p).contacts))
         rb == Rollback(sess[p], writer, p)
     IN /\ writer \notin {NoWriter, p} \/ ~ContactNotNull(c)
        /\ sess' = [sess EXCEPT ![p] = rb.sess]
        /\ writer' = rb.writer
        /\ resp' = [resp EXCEPT ![p] =
                      [status |-> 500,
                       error |-> IF ContactNotNull(c) THEN "OperationalError"
                                 ELSE "IntegrityError",
                       caught |-> FALSE]]
  /\ pc' = [pc EXCEPT ![p] = "done"]
  /\ UNCHANGED <<orders, contacts, loc, clock, history, race>>

\* place_order, lines 127-139: the Order row is inserted and the transaction
\* committed, which expires the session's objects.
PlaceCommit(p) ==
  /\ pc[p] = "flushed"
  /\ ~HasDuplicate(sess[p].orders, loc[p].new_order_id)
  /\ LET o == NewOrder(NextRowId(sess[p].orders), loc[p].new_order_id,
                       loc[p].final_amount, loc[p].contact_id, clock)
     IN /\ orders' = sess[p].orders \cup {o}
        /\ contacts' = sess[p].contacts
        /\ loc' = [loc EXCEPT ![p].order_pk = o.id]
  /\ sess' = [sess EXCEPT ![p] = EmptySess]
  /\ writer' = NoWriter
  /\ clock' = clock + 1
  /\ pc' = [pc EXCEPT ![p] = "committed"]
  /\ UNCHANGED <<resp, history, race>>

\* place_order, lines 145-150: the response reads order_id and final_amount of
\* the expired Order object, which reloads the row by its primary key.
PlaceRespond(p) ==
  /\ pc[p] = "committed"
  /\ \E o \in View(p).orders :
       /\ o.id = loc[p].order_pk
       /\ resp' = [resp EXCEPT ![p] =
                     [status |-> 201, order_id |-> o.order_id,
                      final_amount |-> o.final_amount]]
       /\ history' = Append(history, o.order_id)
  /\ pc' = [pc EXCEPT ![p] = "done"]
  /\ UNCHANGED <<orders, contacts, writer, sess, loc, clock, race>>

\* place_order, lines 145-150 raising: the row was deleted since the commit,
\* the reload finds nothing and nothing catches the error.
PlaceRespondFail(p) ==
  /\ pc[p] = "committed"
  /\ ~\E o \in View(p).orders : o.id = loc[p].order_pk
  /\ resp' = [resp EXCEPT ![p] =
                [status |-> 500, error |-> "ObjectDeletedError", caught |-> FALSE]]
  /\ pc' = [pc EXCEPT ![p] = "done"]
  /\ UNCHANGED <<orders, contacts, writer, sess, loc, clock, history, race>>

\* place_order, lines 137-143: the insert or the commit raises (always when
\* the order number exists, possibly for any other storage failure).
PlaceCommitFail(p) ==
  /\ pc[p] = "flushed"
  /\ LET rb == Rollback(sess[p], writer, p)
     IN /\ sess' = [sess EXCEPT ![p] = rb.sess]
        /\ writer' = rb.writer
  /\ resp' = [resp EXCEPT ![p] =
                [status |-> 500,
                 error |-> IF HasDuplicate(sess[p].orders, loc[p].new_order_id)
                           THEN "IntegrityError" ELSE "OperationalError",
                 caught |-> TRUE]]
  /\ pc' = [pc EXCEPT ![p] = "done"]
  /\ UNCHANGED <<orders, contacts, loc, clock, history, race>>

\* clear_all_orders, lines 256-260: both bulk deletes, in the transaction.
ClearDelete(p) ==
  /\ pc[p] = "idle"
  /\ writer \in {NoWriter, p}
  /\ Budget
  /\ sess' = [sess EXCEPT ![p] = ClearedImage(View(p))]
  /\ writer' = p
  /\ pc' = [pc EXCEPT ![p] = "deleted"]
  /\ loc' = [loc EXCEPT ![p] = [NoLoc EXCEPT !.op = "clear"]]
  /\ UNCHANGED <<orders, contacts, resp, clock, history, race>>

\* clear_all_orders, lines 258 and 270-273: the delete cannot take the write
\* lock another worker holds.
ClearDeleteFail(p) ==
  /\ pc[p] = "idle"
  /\ writer \notin {NoWriter, p}
  /\ LET rb == Rollback(sess[p], writer, p)
     IN /\ sess' = [sess EXCEPT ![p] = rb.sess]
        /\ writer' = rb.writer
  /\ resp' = [resp EXCEPT ![p] =
                [status |-> 500, error |-> "OperationalError", caught |-> TRUE]]
  /\ pc' = [pc EXCEPT ![p] = "done"]
  /\ loc' = [loc EXCEPT ![p] = [NoLoc EXCEPT !.op = "clear"]]
  /\ UNCHANGED <<orders, contacts, clock, history, race>>

\* clear_all_orders, lines 262-268.
ClearCommit(p) ==
  /\ pc[p] = "deleted"
  /\ orders' = sess[p].orders
  /\ contacts' = sess[p].contacts
  /\ sess' = [sess EXCEPT ![p] = EmptySess]
  /\ writer' = NoWriter
  /\ resp' = [resp EXCEPT ![p] = [status |-> 200, deleted_count |-> 0]]
  /\ history' = Append(history, 0)
  /\ pc' = [pc EXCEPT ![p] = "done"]
  /\ UNCHANGED <<loc, clock, race>>

\* clear_all_orders, lines 263 and 270-273: the commit raises.
ClearCommitFail(p) ==
  /\ pc[p] = "deleted"
  /\ LET rb == Rollback(sess[p], writer, p)
     IN /\ sess' = [sess EXCEPT ![p] = rb.sess]
        /\ writer' = rb.writer
  /\ resp' = [resp EXCEPT ![p] =
                [status |-> 500, error |-> "OperationalError", caught |-> TRUE]]
  /\ pc' = [pc EXCEPT ![p] = "done"]
  /\ UNCHANGED <<orders, contacts, loc, clock, history, race>>

\* get_all_orders, lines 152-195.
GetAllOrders(p) ==
  /\ pc[p] = "idle"
  /\ resp' = [resp EXCEPT ![p] = get_all_orders(View(p).orders, View(p).contacts)]
  /\ pc' = [pc EXCEPT ![p] = "done"]
  /\ loc' = [loc EXCEPT ![p] = [NoLoc EXCEPT !.op = "list"]]
  /\ UNCHANGED <<orders, contacts, writer, sess, clock, history, race>>

\* query_order_by_phone, lines 202-212: validation and the read of the
\* matching contacts.
QueryContacts(p, args) ==
  /\ pc[p] = "idle"
  /\ LET matched == MatchedContacts(args, View(p).contacts)
     IN IF ~ValidSuffix(Get(args, "phone_suffix", None))
        THEN /\ resp' = [resp EXCEPT ![p] = [status |-> 400]]
             /\ pc' = [pc EXCEPT ![p] = "done"]
             /\ loc' = [loc EXCEPT ![p] = [NoLoc EXCEPT !.op = "query", !.data = args]]
        ELSE IF matched = {}
        THEN /\ resp' = [resp EXCEPT ![p] = [status |-> 404]]
             /\ pc' = [pc EXCEPT ![p] = "done"]
             /\ loc' = [loc EXCEPT ![p] = [NoLoc EXCEPT !.op = "query", !.data = args]]
        ELSE /\ pc' = [pc EXCEPT ![p] = "matched"]
             /\ loc' = [loc EXCEPT ![p] = [NoLoc EXCEPT !.op = "query", !.data = args,
                                                       !.matched = matched]]
             /\ UNCHANGED resp
  /\ UNCHANGED <<orders, contacts, writer, sess, clock, history, race>>

\* query_order_by_phone, lines 214-240: the read of the orders and the body.
QueryOrders(p) ==
  /\ pc[p] = "matched"
  /\ resp' = [resp EXCEPT ![p] = QueryResult(loc[p].matched, View(p).orders)]
  /\ pc' = [pc EXCEPT ![p] = "done"]
  /\ UNCHANGED <<orders, contacts, writer, sess, loc, clock, history, race>>

\* The response is delivered and the worker takes the next request.
Return(p) ==
  /\ pc[p] = "done"
  /\ pc' = [pc EXCEPT ![p] = "idle"]
  /\ loc' = [loc EXCEPT ![p] = NoLoc]
  /\ resp' = [resp EXCEPT ![p] = NoResp]
  /\ race' = IF p \in race THEN {} ELSE race
  /\ UNCHANGED <<orders, contacts, writer, sess, clock, history>>

\* Requests served concurrently by the workers.
Next ==
  \E p \in Procs :
    \/ \E r \in Requests : PlaceInvalid(p, r)
    \/ \E r \in Requests : PlaceRead(p, r)
    \/ PlaceFlush(p)
    \/ PlaceFlushFail(p)
    \/ PlaceCommit(p)
    \/ PlaceCommitFail(p)
    \/ PlaceRespond(p)
    \/ PlaceRespondFail(p)
    \/ ClearDelete(p)
    \/ ClearDeleteFail(p)
    \/ ClearCommit(p)
    \/ ClearCommitFail(p)
    \/ GetAllOrders(p)
    \/ \E args \in {[phone_suffix |-> P123]} : QueryContacts(p, args)
    \/ QueryOrders(p)
    \/ Return(p)

Spec == Init /\ [][Next]_vars

\* Requests served one after another (the single-writer case).
NextSeq ==
  \E p \in SeqProcs :
    \/ \E r \in SeqRequests : PlaceInvalid(p, r)
    \/ \E r \in SeqRequests : PlaceRead(p, r)
    \/ PlaceFlush(p)
    \/ PlaceFlushFail(p)
    \/ PlaceCommit(p)
    \/ PlaceCommitFail(p)
    \/ PlaceRespond(p)
    \/ ClearDelete(p)
    \/ ClearCommit(p)
    \/ ClearCommitFail(p)
    \/ GetAllOrders(p)
    \/ \E args \in QueryArgs : QueryContacts(p, args)
    \/ QueryOrders(p)
    \/ Return(p)

SpecSeq == Init /\ [][NextSeq]_vars

(* -------------------------------- claims -------------------------------- *)

\* history holds, in completion order, the order number each successful
\* placeOrder returned and a 0 for each successful clearAllOrders.
IsClear(i) == history[i] = 0
IsPlaced(i) == history[i] # 0
ClearBetween(i, j) == \E k \in i..j : IsClear(k)
\* The position of entry i among the placements since the store was last empty.
RankSinceEmpty(i) == Cardinality({k \in 1..i : ~ClearBetween(k, i)})

\* C1: with requests served one after another, the k-th successful placeOrder
\* on a store that started empty (initially, or emptied by a clear) returns
\* orderNumber 1000+k, whether or not failed calls lie in between.
C1_SequentialNumbers ==
  \A i \in 1..Len(history) : IsPlaced(i) => history[i] = 1000 + RankSinceEmpty(i)

C1_Witness == history = <<1001, 1002, 1003>>

\* C2: under any interleaving of placeOrder and clearAllOrders calls, no two
\* stored Order rows carry the same orderNumber.
C2_UniqueOrderNumbers ==
  \A o1 \in orders : \A o2 \in orders : o1.order_id = o2.order_id => o1 = o2

C2_Witness ==
  /\ Cardinality(orders) >= 2
  /\ \E p \in Procs : pc[p] = "done" /\ resp[p].status = 500
                      /\ resp[p].error = "IntegrityError"

\* C3 as stated: every successfully placed order gets a number greater than
\* that of every order placed before it, clears included.
C3_Original ==
  \A i \in 1..Len(history) : \A j \in 1..Len(history) :
    (i < j /\ IsPlaced(i) /\ IsPlaced(j)) => history[i] < history[j]

\* C3 amended: with requests served one after another, every successfully
\* placed order gets a number greater than that of every order placed before
\* it since the last successful clearAllOrders.
C3_IncreasingSinceClear ==
  \A i \in 1..Len(history) : \A j \in 1..Len(history) :
    (i < j /\ IsPlaced(i) /\ IsPlaced(j) /\ ~ClearBetween(i, j))
      => history[i] < history[j]

C3_Witness == history = <<1001, 0, 1001, 1002>>

\* The amount the specification gives for a checkout payload.
ExpectedAmount(data) ==
  LET items == data["cartItems"]
      Price(i) == IF "price" \in DOMAIN items[i] THEN items[i]["price"] ELSE 0
      Quantity(i) == IF "quantity" \in DOMAIN items[i] THEN items[i]["quantity"] ELSE 0
      sum[n \in 0..Len(items)] == IF n = 0 THEN 0 ELSE sum[n - 1] + Price(n) * Quantity(n)
      fee == IF "pickupType" \in DOMAIN data /\ data["pickupType"] = S_delivery
             THEN 50 ELSE 0
  IN sum[Len(items)] + fee

\* C4: for an accepted payload, the finalAmount returned and the finalAmount
\* stored on the new Order are the sum of price x quantity over the cart
\* (a missing field counting 0) plus 50 exactly when pickupType is "delivery".
C4_FinalAmount ==
  \A p \in SeqProcs :
    (pc[p] = "done" /\ loc[p].op = "place" /\ resp[p].status = 201) =>
      /\ resp[p].final_amount = ExpectedAmount(loc[p].data)
      /\ \E o \in orders : /\ o.id = loc[p].order_pk
                           /\ o.order_id = resp[p].order_id
                           /\ o.final_amount = ExpectedAmount(loc[p].data)

C4_Witness ==
  \E p \in SeqProcs :
    /\ pc[p] = "done" /\ loc[p].op = "place" /\ resp[p].status = 201
    /\ loc[p].data = ReqB.data
    /\ resp[p].final_amount = 170

\* A step of worker p inside a placeOrder call.
PlaceStep(p) == loc'[p].op = "place" /\ pc'[p] # pc[p]

\* C5: placeOrder is all-or-nothing.  No step of a call other than its commit
\* changes the stored rows; the step that ends a call in failure leaves the
\* worker no pending row and no lock; and a call that fails after its commit
\* fails because its rows are stored no more.
C5_AllOrNothing ==
  [][\A p \in Procs :
       PlaceStep(p) =>
         /\ pc'[p] # "committed" => (orders' = orders /\ contacts' = contacts)
         /\ (pc'[p] = "done" /\ resp'[p].status # 201) =>
              /\ sess'[p] = EmptySess
              /\ writer' # p
              /\ ~\E o \in orders' : o.id = loc[p].order_pk]_vars

C5_Witness ==
  \E p \in Procs :
    /\ pc[p] = "done" /\ loc[p].op = "place" /\ resp[p].status = 500
    /\ resp[p].error = "IntegrityError" /\ resp[p].caught
    /\ loc[p].contact_id # 0
    /\ orders # {}

\* C6: every stored Order refers to a stored Contact, and no two Orders refer
\* to the same Contact.
C6_OneContactPerOrder ==
  /\ \A o \in orders : \E c \in contacts : c.id = o.contact_id
  /\ \A o1 \in orders : \A o2 \in orders : o1.contact_id = o2.contact_id => o1 = o2

C6_Witness ==
  /\ Cardinality(orders) >= 2
  /\ \E i \in 1..Len(history) : IsClear(i) /\ i > 1

\* race holds two placeOrder calls that both read the same largest order
\* number before either inserted anything, while both are still in progress
\* or awaiting delivery of their response.
Committed(p) == loc[p].order_pk # 0

\* C7: of two concurrent placeOrder calls that computed the same order number
\* from the same read, at most one commits, and once one has committed the
\* other ends with a 500.
C7_RaceOneWinner ==
  \A p \in race : \A q \in race \ {p} :
    /\ loc[p].new_order_id = loc[q].new_order_id
    /\ ~(Committed(p) /\ Committed(q))
    /\ (Committed(p) /\ pc[q] = "done") => resp[q].status = 500

C7_Witness ==
  \E p \in race : \E q \in race \ {p} :
    /\ pc[p] = "done" /\ resp[p].status = 201
    /\ pc[q] = "done" /\ resp[q].status = 500
    /\ resp[q].error = "IntegrityError" /\ resp[q].caught
    /\ resp[p].order_id = loc[q].new_order_id

\* C8: with requests served one after another, the first successful
\* placeOrder after a successful clearAllOrders returns orderNumber 1001.
C8_RestartAfterClear ==
  \A i \in 1..Len(history) :
    (i > 1 /\ IsPlaced(i) /\ IsClear(i - 1)) => history[i] = 1001

C8_Witness ==
  \E i \in 3..Len(history) :
    history[i] = 1001 /\ IsClear(i - 1) /\ history[i - 2] > 1001

ClearStep(p) == loc'[p].op = "clear" /\ pc'[p] # pc[p]
LastWasClear == history # <<>> /\ history[Len(history)] = 0

\* C9: a successful clearAllOrders leaves no Order and no Contact row, and a
\* listAllOrders that follows it returns the empty sequence; a clearAllOrders
\* that fails leaves both tables as they were, and nothing pending.
C9_ClearAll ==
  [][\A p \in SeqProcs :
       /\ (ClearStep(p) /\ pc'[p] = "done" /\ resp'[p].status = 200) =>
            (orders' = {} /\ contacts' = {})
       /\ (ClearStep(p) /\ ~(pc'[p] = "done" /\ resp'[p].status = 200)) =>
            (orders' = orders /\ contacts' = contacts)
       /\ (ClearStep(p) /\ pc'[p] = "done" /\ resp'[p].status # 200) =>
            (sess'[p] = EmptySess /\ writer' # p)
       /\ (pc[p] = "idle" /\ loc'[p].op = "list" /\ LastWasClear) =>
            (resp'[p].status = 200 /\ resp'[p].body = <<>>)]_vars

C9_Witness ==
  \E p \in SeqProcs :
    /\ pc[p] = "done" /\ loc[p].op = "list" /\ resp[p].body = <<>>
    /\ Len(history) >= 2 /\ LastWasClear /\ history[Len(history) - 1] # 0

\* The contacts, and the orders, the specification has a phone-suffix query find.
ContactsWithPhone(s) == {c \in contacts : c.contact_phone = s}

OrdersWithPhone(s) ==
  {o \in orders : \E c \in contacts : c.id = o.contact_id /\ c.contact_phone = s}

WellFormedSuffix(args) ==
  /\ "phone_suffix" \in DOMAIN args
  /\ Len(args["phone_suffix"]) = 3
  /\ \A i \in 1..3 : args["phone_suffix"][i] \in Digits

\* body lists exactly the orders of set os, most recently created first.
ListsNewestFirst(body, os) ==
  /\ Len(body) = Cardinality(os)
  /\ \A o \in os : \E i \in 1..Len(body) :
       body[i].order_id = o.order_id /\ body[i].final_amount = o.final_amount
  /\ \A i \in 1..Len(body) : \A j \in 1..Len(body) :
       i < j => \E oi \in os : \E oj \in os :
                  /\ oi.order_id = body[i].order_id
                  /\ oj.order_id = body[j].order_id
                  /\ oi.created_at > oj.created_at

\* C10: queryOrdersByPhoneSuffix(s) answers 400 unless s is present and is
\* exactly 3 digits, else 404 when no stored Contact has phone equal to s, else
\* 200 with exactly the Orders whose Contact's phone equals s, most recently
\* created first; and no step of it changes the store.
C10_QueryByPhone ==
  [][\A p \in SeqProcs :
       (loc'[p].op = "query" /\ pc'[p] # pc[p]) =>
         /\ orders' = orders /\ contacts' = contacts
         /\ pc'[p] = "done" =>
              LET args == loc'[p].data
              IN IF ~WellFormedSuffix(args) THEN resp'[p] = [status |-> 400]
                 ELSE IF ContactsWithPhone(args["phone_suffix"]) = {}
                      THEN resp'[p] = [status |-> 404]
                 ELSE /\ resp'[p].status = 200
                      /\ ListsNewestFirst(resp'[p].body,
                                          OrdersWithPhone(args["phone_suffix"]))]_vars

C10_Witness ==
  \E p \in SeqProcs :
    /\ pc[p] = "done" /\ loc[p].op = "query" /\ resp[p].status = 200
    /\ Len(resp[p].body) = 2
    /\ \E o \in orders : \E c \in contacts :
         c.id = o.contact_id /\ c.contact_phone = P9123

====
